---- MODULE Spec2Model ----
(***************************************************************************)
(* The deposit pipeline of erc4626-deposit/index.ts, run against a ledger  *)
(* holding the USDC token and a 1:1 ERC-4626 vault (contracts/src).        *)
(*                                                                         *)
(* deposit() is an async function: it runs synchronously up to its first   *)
(* await and then from one await to the next.  Each such stretch is one    *)
(* action; pc[p] names the remote call invocation p is suspended on.       *)
(***************************************************************************)
EXTENDS Integers, Sequences, FiniteSets, TLC

\* ---------------------------------------------------------------- bounds
\* Largest token quantity of the model.  Ledger quantities are uint256 in
\* the contracts; MaxAmount stands for type(uint256).max.
MaxAmount == 2
\* Number of deposit() invocations started in one behaviour.
MaxCalls == 2
\* Largest base estimate an eth_estimateGas simulation returns where the gas
\* arithmetic is examined over a range of estimates.
MaxGasEstimate == 120

\* ------------------------------------------------------------- constants
ZERO_ADDRESS == "0x0000000000000000000000000000000000000000"
WALLET == "wallet"
VAULT == "vault"
USDC == "usdc"

Procs == {"p1", "p2"}
Wallets == {ZERO_ADDRESS, WALLET}
Vaults == {ZERO_ADDRESS, VAULT}
\* amount is a bigint: negative values are representable
Amounts == (0 - 1) .. MaxAmount
\* values an eth_estimateGas simulation may return
GasEstimates == {9, 25}

\* names of the remote calls, in the order the code issues them
RemoteCalls ==
    <<"asset", "balanceOf", "allowance", "maxDeposit", "estimateGas",
      "sendTransaction", "waitForTransactionReceipt">>

NoValue == << >>

VARIABLES
    \* ---- ledger (USDC token + vault)
    balance,        \* USDC.balanceOf(WALLET)
    allowance,      \* USDC.allowance(WALLET, VAULT)
    totalAssets,    \* USDC.balanceOf(VAULT) = vault.totalAssets()
    shares,         \* vault.balanceOf(WALLET)
    vaultMaxDeposit,\* vault.maxDeposit(WALLET)
    txs,            \* transactions sent to the network; a hash is an index
    \* ---- invocations of deposit()
    pc,             \* "idle", the pending remote call, or "done"
    req,            \* DepositParams of the invocation
    calls,          \* remote calls issued so far by the invocation
    rd,             \* values the awaited reads delivered (const asset, ...)
    sent,           \* hash returned by sendTransaction, 0 if none
    thrown,         \* name of the error thrown, "none" if none
    returned,       \* value returned, NoValue if none
    ncalls,         \* invocations started
    \* ---- history
    interfered,     \* ledger changed by someone else since invocation began
    approved,       \* allowance of the last approve(), spent or not
    sharesThen,     \* shares when that approve() was mined
    okSince         \* amounts of the deposits mined successfully since

ledger == <<balance, allowance, totalAssets, shares, vaultMaxDeposit>>
locals == <<pc, req, calls, rd, sent, thrown, returned, ncalls>>
history == <<interfered, approved, sharesThen, okSince>>
vars == <<balance, allowance, totalAssets, shares, vaultMaxDeposit, txs,
          pc, req, calls, rd, sent, thrown, returned, ncalls,
          interfered, approved, sharesThen, okSince>>

\* ------------------------------------------------------ index.ts helpers
\* mutant: the smallest unit is refused too
InvalidAmount_one(amount) == amount <= 1

\* mutant: zero is let through
InvalidAmount_strict(amount) == amount < 0

\* if (amount <= 0n)
InvalidAmount(amount) == amount <= 0

\* a === "0x0000000000000000000000000000000000000000"
IsZeroAddress(a) == a = ZERO_ADDRESS

\* mutant: the vault address is not checked
InvalidReceiver_walletOnly(wallet, vault) == IsZeroAddress(wallet)

\* if (wallet === "0x00...") ... if (vault === "0x00...")
InvalidReceiver(wallet, vault) == IsZeroAddress(wallet) \/ IsZeroAddress(vault)

\* mutant: the addresses are validated before the amount
LocalValidation_receiverFirst(wallet, vault, amount) ==
    IF InvalidReceiver(wallet, vault) THEN "InvalidReceiverError"
    ELSE IF InvalidAmount(amount) THEN "InvalidAmountError"
    ELSE "none"

\* the input validation, in the order of the code: the error it throws,
\* "none" if it throws none
LocalValidation(wallet, vault, amount) ==
    IF InvalidAmount(amount) THEN "InvalidAmountError"
    ELSE IF InvalidReceiver(wallet, vault) THEN "InvalidReceiverError"
    ELSE "none"

\* mutant: the balance is never found short
NotEnoughBalance_never(bal, amount) == FALSE

\* mutant: the comparison is turned around
NotEnoughBalance_reversed(bal, amount) == bal > amount

\* if (balance < amount)
NotEnoughBalance(bal, amount) == bal < amount

\* mutant: the allowance is never found missing
MissingAllowance_never(allow, amount) == FALSE

\* mutant: an allowance equal to the amount is refused
MissingAllowance_orEqual(allow, amount) == allow <= amount

\* if (allowance < amount)
MissingAllowance(allow, amount) == allow < amount

\* mutant: an amount equal to maxDeposit is refused
AmountExceedsMaxDeposit_orEqual(maxDep, amount) == maxDep <= amount

\* mutant: the cap is never found exceeded
AmountExceedsMaxDeposit_never(maxDep, amount) == FALSE

\* if (maxDeposit < amount)
AmountExceedsMaxDeposit(maxDep, amount) == maxDep < amount

\* encodeFunctionData({abi, functionName, args})
encodeFunctionData(functionName, args) ==
    [functionName |-> functionName, args |-> args]

\* args: [amount, wallet]
DepositArgs(wallet, amount) == <<amount, wallet>>

\* mutant: the buffer is rounded to the nearest integer, as
\* Math.round(gasEstimate * 0.1) would
GasWithBuffer_rounded(gasEstimate) ==
    gasEstimate + ((gasEstimate * 10 + 50) \div 100)

\* mutant: the buffer is rounded up
GasWithBuffer_ceil(gasEstimate) == gasEstimate + ((gasEstimate * 10 + 99) \div 100)

\* gasEstimate + (gasEstimate * 10n / 100n)
GasWithBuffer(gasEstimate) == gasEstimate + ((gasEstimate * 10) \div 100)

\* mutant: the simulated call names the vault as receiver of the shares
EstimateCall_vaultReceiver(wallet, vault, amount) ==
    [account |-> wallet, to |-> vault,
     data |-> encodeFunctionData("deposit", DepositArgs(vault, amount))]

\* the call estimateGas simulates
EstimateCall(wallet, vault, amount) ==
    [account |-> wallet, to |-> vault,
     data |-> encodeFunctionData("deposit", DepositArgs(wallet, amount))]

\* mutant: to and from are exchanged
DepositTx_swapped(wallet, vault, amount, gasEstimate) ==
    [to |-> wallet, from |-> vault,
     data |-> encodeFunctionData("deposit", DepositArgs(wallet, amount)),
     value |-> 0,
     gas |-> GasWithBuffer(gasEstimate)]

\* const depositTx = {...}
DepositTx(wallet, vault, amount, gasEstimate) ==
    [to |-> vault, from |-> wallet,
     data |-> encodeFunctionData("deposit", DepositArgs(wallet, amount)),
     value |-> 0,
     gas |-> GasWithBuffer(gasEstimate)]

\* mutant: the transaction is sent whether or not a wallet client was given
ShouldExecute_always(r) == TRUE

\* if (walletClient)
ShouldExecute(r) == r.walletClient

\* mutant: the result carries the hash alone
DepositResult_hashOnly(hash, receipt) == [hash |-> hash]

\* return { hash, receipt }
DepositResult(hash, receipt) == [hash |-> hash, receipt |-> receipt]

\* ------------------------------------------------------- ledger helpers
\* mutant: one share less than assets
previewDeposit_short(assets) == assets - 1

\* SimpleVault.previewDeposit: 1:1
previewDeposit(assets) == assets

\* SimpleVault.maxDeposit: type(uint256).max
SimpleVaultMaxDeposit == MaxAmount

\* ERC4626.deposit(assets, receiver) called by `from` on `to` goes through
\* iff the cap, the allowance and the balance all cover assets.
DepositPermitted(from, to, data) ==
    /\ from = WALLET
    /\ to = VAULT
    /\ data.functionName = "deposit"
    /\ data.args[1] >= 0
    /\ data.args[1] <= vaultMaxDeposit
    /\ data.args[1] <= allowance
    /\ data.args[1] <= balance

\* mutant: the receipt reports success whatever became of the transaction
Receipt_alwaysSuccess(hash) ==
    [transactionHash |-> hash, status |-> "success",
     from |-> txs[hash].tx.from, to |-> txs[hash].tx.to]

\* the receipt waitForTransactionReceipt delivers for a mined transaction
Receipt(hash) ==
    [transactionHash |-> hash, status |-> txs[hash].status,
     from |-> txs[hash].tx.from, to |-> txs[hash].tx.to]

Init ==
    /\ balance \in 0 .. MaxAmount
    /\ allowance \in 0 .. MaxAmount
    /\ totalAssets = 0
    /\ shares = 0
    /\ vaultMaxDeposit \in {1, SimpleVaultMaxDeposit}
    /\ txs = << >>
    /\ pc = [p \in Procs |-> "idle"]
    /\ req = [p \in Procs |-> NoValue]
    /\ calls = [p \in Procs |-> << >>]
    /\ rd = [p \in Procs |-> NoValue]
    /\ sent = [p \in Procs |-> 0]
    /\ thrown = [p \in Procs |-> "none"]
    /\ returned = [p \in Procs |-> NoValue]
    /\ ncalls = 0
    /\ interfered = [p \in Procs |-> FALSE]
    /\ approved = allowance
    /\ sharesThen = 0
    /\ okSince = << >>

\* ------------------------------------------------- steps of deposit()
\* throw new E(): the invocation ends
Throw(p, e) ==
    /\ pc' = [pc EXCEPT ![p] = "done"]
    /\ thrown' = [thrown EXCEPT ![p] = e]
    /\ UNCHANGED returned

\* return v: the invocation ends
Return(p, v) ==
    /\ pc' = [pc EXCEPT ![p] = "done"]
    /\ returned' = [returned EXCEPT ![p] = v]
    /\ UNCHANGED thrown

\* issue remote call c and suspend on it
Await(p, c) ==
    /\ pc' = [pc EXCEPT ![p] = c]
    /\ calls' = [calls EXCEPT ![p] = Append(@, c)]
    /\ UNCHANGED <<thrown, returned>>

\* mutant: asset() is issued before the addresses are validated
Deposit_readsBeforeValidation(p, wallet, vault, amount, walletClient) ==
    /\ pc[p] \in {"idle", "done"}
    /\ ncalls < MaxCalls
    /\ ncalls' = ncalls + 1
    /\ req' = [req EXCEPT ![p] =
                 [wallet |-> wallet, vault |-> vault, amount |-> amount,
                  walletClient |-> walletClient]]
    /\ rd' = [rd EXCEPT ![p] = NoValue]
    /\ sent' = [sent EXCEPT ![p] = 0]
    /\ interfered' = [interfered EXCEPT ![p] = FALSE]
    /\ IF LocalValidation(wallet, vault, amount) # "none"
         THEN /\ pc' = [pc EXCEPT ![p] = "done"]
              /\ thrown' = [thrown EXCEPT ![p] =
                              LocalValidation(wallet, vault, amount)]
              /\ returned' = [returned EXCEPT ![p] = NoValue]
              /\ calls' = [calls EXCEPT ![p] =
                             IF InvalidAmount(amount) THEN << >>
                             ELSE <<"asset">>]
         ELSE /\ pc' = [pc EXCEPT ![p] = "asset"]
              /\ thrown' = [thrown EXCEPT ![p] = "none"]
              /\ returned' = [returned EXCEPT ![p] = NoValue]
              /\ calls' = [calls EXCEPT ![p] = <<"asset">>]
    /\ UNCHANGED <<ledger, txs, approved, sharesThen, okSince>>

\* deposit(client, {wallet, vault, amount, walletClient}) up to the first
\* await: the two local validations, then vaultContract.read.asset()
Deposit(p, wallet, vault, amount, walletClient) ==
    /\ pc[p] \in {"idle", "done"}
    /\ ncalls < MaxCalls
    /\ ncalls' = ncalls + 1
    /\ req' = [req EXCEPT ![p] =
                 [wallet |-> wallet, vault |-> vault, amount |-> amount,
                  walletClient |-> walletClient]]
    /\ rd' = [rd EXCEPT ![p] = NoValue]
    /\ sent' = [sent EXCEPT ![p] = 0]
    /\ interfered' = [interfered EXCEPT ![p] = FALSE]
    /\ IF LocalValidation(wallet, vault, amount) # "none"
         THEN /\ pc' = [pc EXCEPT ![p] = "done"]
              /\ thrown' = [thrown EXCEPT ![p] =
                              LocalValidation(wallet, vault, amount)]
              /\ returned' = [returned EXCEPT ![p] = NoValue]
              /\ calls' = [calls EXCEPT ![p] = << >>]
         ELSE /\ pc' = [pc EXCEPT ![p] = "asset"]
              /\ thrown' = [thrown EXCEPT ![p] = "none"]
              /\ returned' = [returned EXCEPT ![p] = NoValue]
              /\ calls' = [calls EXCEPT ![p] = <<"asset">>]
    /\ UNCHANGED <<ledger, txs, approved, sharesThen, okSince>>

\* const asset = await vaultContract.read.asset(); then balanceOf is issued
AssetRead(p) ==
    /\ pc[p] = "asset"
    /\ rd' = [rd EXCEPT ![p] = ("asset" :> USDC) @@ @]
    /\ Await(p, "balanceOf")
    /\ UNCHANGED <<ledger, txs, req, sent, ncalls, history>>

\* mutant: the amount is kept in a variable shared by the invocations, so
\* the balance is compared with the amount of the other invocation in flight
BalanceRead_sharedAmount(p) ==
    /\ pc[p] = "balanceOf"
    /\ rd' = [rd EXCEPT ![p] = ("balance" :> balance) @@ @]
    /\ LET others == {q \in Procs \ {p} : pc[q] \notin {"idle", "done"}}
           amount == IF others = {} THEN req[p].amount
                     ELSE req[CHOOSE q \in others : TRUE].amount
       IN  IF NotEnoughBalance(balance, amount)
             THEN Throw(p, "NotEnoughBalanceError") /\ UNCHANGED calls
             ELSE Await(p, "allowance")
    /\ UNCHANGED <<ledger, txs, req, sent, ncalls, history>>

\* mutant: allowance and maxDeposit are issued together once the balance
\* has passed
BalanceRead_parallel(p) ==
    /\ pc[p] = "balanceOf"
    /\ rd' = [rd EXCEPT ![p] = ("balance" :> balance) @@ @]
    /\ IF NotEnoughBalance(balance, req[p].amount)
         THEN Throw(p, "NotEnoughBalanceError") /\ UNCHANGED calls
         ELSE /\ pc' = [pc EXCEPT ![p] = "allowance"]
              /\ calls' = [calls EXCEPT ![p] = @ \o <<"allowance", "maxDeposit">>]
              /\ UNCHANGED <<thrown, returned>>
    /\ UNCHANGED <<ledger, txs, req, sent, ncalls, history>>

\* const balance = await assetContract.read.balanceOf([wallet])
BalanceRead(p) ==
    /\ pc[p] = "balanceOf"
    /\ rd' = [rd EXCEPT ![p] = ("balance" :> balance) @@ @]
    /\ IF NotEnoughBalance(balance, req[p].amount)
         THEN Throw(p, "NotEnoughBalanceError") /\ UNCHANGED calls
         ELSE Await(p, "allowance")
    /\ UNCHANGED <<ledger, txs, req, sent, ncalls, history>>

\* mutant: the allowance read by an earlier invocation is kept and used
\* again
AllowanceRead_cached(p) ==
    /\ pc[p] = "allowance"
    /\ LET earlier == {q \in Procs \ {p} :
                         pc[q] = "done" /\ "allowance" \in DOMAIN rd[q]}
           value == IF earlier = {} THEN allowance
                    ELSE rd[CHOOSE q \in earlier : TRUE].allowance
       IN  /\ rd' = [rd EXCEPT ![p] = ("allowance" :> value) @@ @]
           /\ IF MissingAllowance(value, req[p].amount)
                THEN Throw(p, "MissingAllowanceError") /\ UNCHANGED calls
                ELSE Await(p, "maxDeposit")
    /\ UNCHANGED <<ledger, txs, req, sent, ncalls, history>>

\* const allowance = await assetContract.read.allowance([wallet, vault])
AllowanceRead(p) ==
    /\ pc[p] = "allowance"
    /\ rd' = [rd EXCEPT ![p] = ("allowance" :> allowance) @@ @]
    /\ IF MissingAllowance(allowance, req[p].amount)
         THEN Throw(p, "MissingAllowanceError") /\ UNCHANGED calls
         ELSE Await(p, "maxDeposit")
    /\ UNCHANGED <<ledger, txs, req, sent, ncalls, history>>

\* const maxDeposit = await vaultContract.read.maxDeposit([wallet])
MaxDepositRead(p) ==
    /\ pc[p] = "maxDeposit"
    /\ rd' = [rd EXCEPT ![p] = ("maxDeposit" :> vaultMaxDeposit) @@ @]
    /\ IF AmountExceedsMaxDeposit(vaultMaxDeposit, req[p].amount)
         THEN Throw(p, "AmountExceedsMaxDepositError") /\ UNCHANGED calls
         ELSE Await(p, "estimateGas")
    /\ UNCHANGED <<ledger, txs, req, sent, ncalls, history>>

\* mutant: the simulation is made by sending the call as a transaction
GasEstimated_bySending(p, gasEstimate) ==
    /\ pc[p] = "estimateGas"
    /\ LET call == EstimateCall(req[p].wallet, req[p].vault, req[p].amount)
       IN  DepositPermitted(call.account, call.to, call.data)
    /\ rd' = [rd EXCEPT ![p] = ("gasEstimate" :> gasEstimate) @@ @]
    /\ txs' = Append(txs,
                 [tx |-> DepositTx(req[p].wallet, req[p].vault,
                                   req[p].amount, gasEstimate),
                  account |-> req[p].wallet,
                  status |-> "pending"])
    /\ IF ShouldExecute(req[p])
         THEN Await(p, "sendTransaction")
         ELSE /\ Return(p, DepositTx(req[p].wallet, req[p].vault,
                                     req[p].amount, gasEstimate))
              /\ UNCHANGED calls
    /\ UNCHANGED <<ledger, req, sent, ncalls, history>>

\* const gasEstimate = await client.estimateGas({account, to, data});
\* the node simulates the call on the current ledger and answers only if
\* the simulation does not revert.  depositTx is built and, with a
\* walletClient, handed to walletClient.sendTransaction; without one it is
\* returned.
GasEstimated(p, gasEstimate) ==
    /\ pc[p] = "estimateGas"
    /\ LET call == EstimateCall(req[p].wallet, req[p].vault, req[p].amount)
       IN  DepositPermitted(call.account, call.to, call.data)
    /\ rd' = [rd EXCEPT ![p] = ("gasEstimate" :> gasEstimate) @@ @]
    /\ IF ShouldExecute(req[p])
         THEN Await(p, "sendTransaction")
         ELSE /\ Return(p, DepositTx(req[p].wallet, req[p].vault,
                                     req[p].amount, gasEstimate))
              /\ UNCHANGED calls
    /\ UNCHANGED <<ledger, txs, req, sent, ncalls, history>>

\* mutant: the transaction is sent with the base estimate as its gas limit,
\* the buffer of the descriptor being dropped on the way
TransactionSent_unbuffered(p) ==
    /\ pc[p] = "sendTransaction"
    /\ txs' = Append(txs,
                 [tx |-> [DepositTx(req[p].wallet, req[p].vault,
                                    req[p].amount, rd[p].gasEstimate)
                            EXCEPT !.gas = rd[p].gasEstimate],
                  account |-> req[p].wallet,
                  status |-> "pending"])
    /\ sent' = [sent EXCEPT ![p] = Len(txs) + 1]
    /\ Await(p, "waitForTransactionReceipt")
    /\ UNCHANGED <<ledger, req, rd, ncalls, history>>

\* const hash = await walletClient.sendTransaction({...depositTx, account:
\* wallet, chain: null}); then waitForTransactionReceipt({hash}) is issued
TransactionSent(p) ==
    /\ pc[p] = "sendTransaction"
    /\ txs' = Append(txs,
                 [tx |-> DepositTx(req[p].wallet, req[p].vault,
                                   req[p].amount, rd[p].gasEstimate),
                  account |-> req[p].wallet,
                  status |-> "pending"])
    /\ sent' = [sent EXCEPT ![p] = Len(txs) + 1]
    /\ Await(p, "waitForTransactionReceipt")
    /\ UNCHANGED <<ledger, req, rd, ncalls, history>>

\* mutant: the receipt is not awaited: the transaction's current state is
\* returned even while it is pending
ReceiptReceived_notAwaited(p) ==
    /\ pc[p] = "waitForTransactionReceipt"
    /\ rd' = [rd EXCEPT ![p] = ("receipt" :> Receipt(sent[p])) @@ @]
    /\ Return(p, DepositResult(sent[p], Receipt(sent[p])))
    /\ UNCHANGED <<ledger, txs, req, calls, sent, ncalls, history>>

\* mutant: a reverted receipt makes the invocation send the transaction again
ReceiptReceived_resend(p) ==
    /\ pc[p] = "waitForTransactionReceipt"
    /\ txs[sent[p]].status # "pending"
    /\ rd' = [rd EXCEPT ![p] = ("receipt" :> Receipt(sent[p])) @@ @]
    /\ IF txs[sent[p]].status = "reverted"
         THEN /\ Await(p, "sendTransaction")
              /\ UNCHANGED <<thrown, returned>>
         ELSE /\ Return(p, DepositResult(sent[p], Receipt(sent[p])))
              /\ UNCHANGED calls
    /\ UNCHANGED <<ledger, txs, req, sent, ncalls, history>>

\* mutant: a reverted receipt is turned into an error
ReceiptReceived_throwOnRevert(p) ==
    /\ pc[p] = "waitForTransactionReceipt"
    /\ txs[sent[p]].status # "pending"
    /\ rd' = [rd EXCEPT ![p] = ("receipt" :> Receipt(sent[p])) @@ @]
    /\ IF txs[sent[p]].status = "reverted"
         THEN Throw(p, "TransactionRevertedError")
         ELSE Return(p, DepositResult(sent[p], Receipt(sent[p])))
    /\ UNCHANGED <<ledger, txs, req, calls, sent, ncalls, history>>

\* const receipt = await client.waitForTransactionReceipt({hash});
\* return {hash, receipt}
ReceiptReceived(p) ==
    /\ pc[p] = "waitForTransactionReceipt"
    /\ txs[sent[p]].status # "pending"
    /\ rd' = [rd EXCEPT ![p] = ("receipt" :> Receipt(sent[p])) @@ @]
    /\ Return(p, DepositResult(sent[p], Receipt(sent[p])))
    /\ UNCHANGED <<ledger, txs, req, calls, sent, ncalls, history>>

\* mutant: a rejected balanceOf is taken for an empty balance
RemoteCallFailed_asNoBalance(p) ==
    /\ pc[p] \notin {"idle", "done"}
    /\ Throw(p, IF pc[p] = "balanceOf" THEN "NotEnoughBalanceError"
                ELSE "RemoteCallError")
    /\ UNCHANGED <<ledger, txs, req, calls, rd, sent, ncalls, history>>

\* mutant: a rejected remote call is caught and awaited again
RemoteCallFailed_retried(p) ==
    /\ pc[p] \notin {"idle", "done"}
    /\ UNCHANGED vars

\* an awaited remote call rejects (RPC timeout, malformed response,
\* reverted simulation, dropped transaction): the rejection propagates
RemoteCallFailed(p) ==
    /\ pc[p] \notin {"idle", "done"}
    /\ Throw(p, "RemoteCallError")
    /\ UNCHANGED <<ledger, txs, req, calls, rd, sent, ncalls, history>>

\* ------------------------------------------------------------- network
\* every invocation but the one that sent transaction h (none sent an
\* approve(), h = 0) has the ledger changed under it
Interfere(h) ==
    [q \in Procs |-> IF pc[q] # "idle" /\ (h = 0 \/ sent[q] # h) THEN TRUE
                     ELSE interfered[q]]

\* the network includes transaction h in a block: ERC4626.deposit runs
\* (transferFrom wallet -> vault, shares minted to the receiver) or reverts
Mine(h) ==
    /\ h \in 1 .. Len(txs)
    /\ txs[h].status = "pending"
    /\ LET t == txs[h].tx
           assets == t.data.args[1]
       IN  IF DepositPermitted(t.from, t.to, t.data) /\ t.value = 0
             THEN /\ txs' = [txs EXCEPT ![h].status = "success"]
                  /\ balance' = balance - assets
                  /\ allowance' = allowance - assets
                  /\ totalAssets' = totalAssets + assets
                  /\ shares' = shares + previewDeposit(assets)
                  /\ interfered' = Interfere(h)
                  /\ okSince' = Append(okSince, assets)
             ELSE /\ txs' = [txs EXCEPT ![h].status = "reverted"]
                  /\ UNCHANGED <<balance, allowance, totalAssets, shares,
                                 interfered, okSince>>
    /\ UNCHANGED <<vaultMaxDeposit, locals, approved, sharesThen>>

\* usdcContract.write.approve([vault, amount]) by the wallet's owner
Approve(amount) ==
    /\ amount # allowance
    /\ approved' = amount
    /\ sharesThen' = shares
    /\ okSince' = << >>
    /\ allowance' = amount
    /\ interfered' = Interfere(0)
    /\ UNCHANGED <<balance, totalAssets, shares, vaultMaxDeposit, txs, locals>>

\* ----------------------------------------------------------- behaviours
\* the steps of invocation p after its call
Step(p) ==
    \/ AssetRead(p)
    \/ BalanceRead(p)
    \/ AllowanceRead(p)
    \/ MaxDepositRead(p)
    \/ \E g \in GasEstimates : GasEstimated(p, g)
    \/ TransactionSent(p)
    \/ ReceiptReceived(p)
    \/ RemoteCallFailed(p)

Network ==
    \/ \E h \in 1 .. MaxCalls : Mine(h)
    \/ \E a \in 0 .. MaxAmount : Approve(a)

\* one caller awaiting each deposit before starting the next, as the test
\* suite does
Caller == "p1"

Next ==
    \/ \E w \in Wallets, v \in Vaults, a \in Amounts, wc \in BOOLEAN :
          Deposit(Caller, w, v, a, wc)
    \/ Step(Caller)
    \/ Network

Spec == Init /\ [][Next]_vars

\* two invocations started together, as by
\* Promise.all([deposit(client, a), deposit(client, b)]): each call runs up
\* to its first await before any continuation runs, then the continuations
\* and the network interleave at the awaits
BothCalled == \A p \in Procs : pc[p] # "idle"

NextConcurrent ==
    \/ \E p \in Procs, w \in Wallets, v \in Vaults, a \in Amounts,
          wc \in BOOLEAN :
            /\ pc[p] = "idle"
            /\ Deposit(p, w, v, a, wc)
    \/ \E p \in Procs : BothCalled /\ Step(p)
    \/ \E h \in 1 .. MaxCalls : Mine(h)

SpecConcurrent == Init /\ [][NextConcurrent]_vars

\* a request made and, once it has ended, made again: "p1" is the first
\* invocation, "p2" the repetition; the ledger may change at any time
First == "p1"
Repeated == "p2"

NextRepeat ==
    \/ \E a \in Amounts, wc \in BOOLEAN :
          /\ pc[First] = "idle"
          /\ Deposit(First, WALLET, VAULT, a, wc)
    \/ Step(First)
    \/ /\ pc[First] = "done"
       /\ pc[Repeated] = "idle"
       /\ Deposit(Repeated, req[First].wallet, req[First].vault,
                  req[First].amount, req[First].walletClient)
    \/ Step(Repeated)
    \/ Network

SpecRepeat == Init /\ [][NextRepeat]_vars

\* the caller's deposits, every awaited remote call eventually returning or
\* rejecting: a continuation of the invocation is enabled as long as it
\* awaits, and weak fairness makes one run; the network is not obliged to
\* mine
NextLive ==
    \/ \E w \in Wallets, v \in Vaults, a \in Amounts, wc \in BOOLEAN :
          Deposit(Caller, w, v, a, wc)
    \/ Step(Caller)
    \/ \E h \in 1 .. MaxCalls : Mine(h)

SpecLive == Init /\ [][NextLive]_vars /\ WF_vars(Step(Caller))

\* quotes of the caller against a simulation that may return any base
\* estimate from 0 to MaxGasEstimate
NextGas ==
    \/ \E a \in 1 .. MaxAmount : Deposit(Caller, WALLET, VAULT, a, FALSE)
    \/ AssetRead(Caller)
    \/ BalanceRead(Caller)
    \/ AllowanceRead(Caller)
    \/ MaxDepositRead(Caller)
    \/ \E g \in 0 .. MaxGasEstimate : GasEstimated(Caller, g)
    \/ RemoteCallFailed(Caller)

SpecGas == Init /\ [][NextGas]_vars

\* ================================================================ claims
\* invocation p has been called (its DepositParams are set)
Called(p) == pc[p] # "idle"

\* invocation p has ended
Done(p) == pc[p] = "done"

\* amount > 0 and neither address is the zero address
LocallyValid(p) ==
    /\ Called(p)
    /\ req[p].amount > 0
    /\ req[p].wallet # ZERO_ADDRESS
    /\ req[p].vault # ZERO_ADDRESS

\* what invocation p's own transaction took from the wallet, if mined
OwnSpent(p) ==
    IF sent[p] # 0 /\ txs[sent[p]].status = "success"
      THEN txs[sent[p]].tx.data.args[1] ELSE 0

\* Nothing but p's own transaction has touched the ledger since p was
\* called: the ledger p read is the present one, OwnSpent(p) put back.
Undisturbed(p) == Called(p) /\ ~interfered[p]
BalanceAtCall(p) == balance + OwnSpent(p)
AllowanceAtCall(p) == allowance + OwnSpent(p)

\* p ended otherwise than by a rejected remote call
Answered(p) == Done(p) /\ thrown[p] # "RemoteCallError"

\* the remote call c was issued by invocation p
Issued(p, c) == \E i \in 1 .. Len(calls[p]) : calls[p][i] = c

\* C1: whatever the depositor, the vault, the ledger and the submitter, a
\* deposit of an amount <= 0 fails with InvalidAmountError, and no remote
\* call has been issued before the failure.
C1_InvalidAmountBeforeAnyCall ==
    \A p \in Procs :
        (Called(p) /\ req[p].amount <= 0) =>
            /\ Done(p)
            /\ thrown[p] = "InvalidAmountError"
            /\ returned[p] = NoValue
            /\ calls[p] = << >>

\* C1 witness: a zero amount with a submitter and valid addresses failed
C1_Witness ==
    \E p \in Procs :
        /\ Done(p)
        /\ req[p].amount = 0
        /\ req[p].walletClient
        /\ req[p].wallet = WALLET /\ req[p].vault = VAULT
        /\ balance > 0 /\ allowance > 0
        /\ thrown[p] = "InvalidAmountError"

\* C2: a deposit of an amount > 0 whose depositor or vault (or both) is the
\* zero address fails with InvalidReceiverError, the same error for either.
C2_InvalidReceiver ==
    \A p \in Procs :
        (/\ Called(p)
         /\ req[p].amount > 0
         /\ (req[p].wallet = ZERO_ADDRESS \/ req[p].vault = ZERO_ADDRESS)) =>
            /\ Done(p)
            /\ thrown[p] = "InvalidReceiverError"
            /\ returned[p] = NoValue

\* C2 witness: only the vault address is zero
C2_Witness ==
    \E p \in Procs :
        /\ Done(p)
        /\ req[p].amount > 0
        /\ req[p].wallet = WALLET /\ req[p].vault = ZERO_ADDRESS
        /\ thrown[p] = "InvalidReceiverError"

\* C3: a locally valid deposit answered while the depositor's balance is
\* below the amount, allowance and capacity covering it, fails with
\* NotEnoughBalanceError; it gets no further than the balance read.
C3_InsufficientBalance ==
    \A p \in Procs :
        (/\ LocallyValid(p) /\ Undisturbed(p)
         /\ BalanceAtCall(p) < req[p].amount
         /\ AllowanceAtCall(p) >= req[p].amount
         /\ vaultMaxDeposit >= req[p].amount) =>
            /\ pc[p] \in {"asset", "balanceOf", "done"}
            /\ Answered(p) => thrown[p] = "NotEnoughBalanceError"

\* C3 witness: the balance alone was short
C3_Witness ==
    \E p \in Procs :
        /\ LocallyValid(p) /\ Undisturbed(p) /\ Done(p)
        /\ BalanceAtCall(p) < req[p].amount
        /\ AllowanceAtCall(p) >= req[p].amount
        /\ vaultMaxDeposit >= req[p].amount
        /\ thrown[p] = "NotEnoughBalanceError"
        /\ rd[p].balance = balance

\* C4: a locally valid deposit answered while the balance covers the amount
\* and the allowance does not fails with MissingAllowanceError, whatever
\* the vault's maxDeposit.
C4_InsufficientAllowance ==
    \A p \in Procs :
        (/\ LocallyValid(p) /\ Undisturbed(p)
         /\ BalanceAtCall(p) >= req[p].amount
         /\ AllowanceAtCall(p) < req[p].amount) =>
            /\ pc[p] \in {"asset", "balanceOf", "allowance", "done"}
            /\ Answered(p) => thrown[p] = "MissingAllowanceError"

\* C4 witness: the allowance was short, and so was the vault's capacity
C4_Witness ==
    \E p \in Procs :
        /\ LocallyValid(p) /\ Undisturbed(p) /\ Done(p)
        /\ BalanceAtCall(p) >= req[p].amount
        /\ AllowanceAtCall(p) < req[p].amount
        /\ vaultMaxDeposit < req[p].amount
        /\ thrown[p] = "MissingAllowanceError"
        /\ rd[p].allowance = allowance

\* C5: a locally valid deposit answered while balance and allowance cover
\* the amount and maxDeposit does not fails with
\* AmountExceedsMaxDepositError; neither the gas estimation nor the
\* submission is performed.
C5_ExceedsCapacity ==
    \A p \in Procs :
        (/\ LocallyValid(p) /\ Undisturbed(p)
         /\ BalanceAtCall(p) >= req[p].amount
         /\ AllowanceAtCall(p) >= req[p].amount
         /\ vaultMaxDeposit < req[p].amount) =>
            /\ pc[p] \in {"asset", "balanceOf", "allowance", "maxDeposit", "done"}
            /\ Answered(p) => thrown[p] = "AmountExceedsMaxDepositError"
            /\ ~Issued(p, "estimateGas")
            /\ ~Issued(p, "sendTransaction")
            /\ ~Issued(p, "waitForTransactionReceipt")
            /\ sent[p] = 0

\* C5 witness: a deposit with a submitter stopped at the capacity check
C5_Witness ==
    \E p \in Procs :
        /\ LocallyValid(p) /\ Undisturbed(p) /\ Done(p)
        /\ req[p].walletClient
        /\ BalanceAtCall(p) >= req[p].amount
        /\ AllowanceAtCall(p) >= req[p].amount
        /\ thrown[p] = "AmountExceedsMaxDepositError"
        /\ rd[p].maxDeposit < req[p].amount
        /\ calls[p] = <<"asset", "balanceOf", "allowance", "maxDeposit">>

\* every check of invocation p passed on the values it read, and the gas
\* simulation answered
ChecksPassed(p) ==
    /\ LocallyValid(p)
    /\ {"balance", "allowance", "maxDeposit", "gasEstimate"} \subseteq DOMAIN rd[p]
    /\ rd[p].balance >= req[p].amount
    /\ rd[p].allowance >= req[p].amount
    /\ rd[p].maxDeposit >= req[p].amount

\* g is e plus the integer part of a tenth of e
IsTenPercentAbove(g, e) ==
    /\ g >= e
    /\ 10 * (g - e) <= e
    /\ e < 10 * (g - e) + 10

\* C6: when every check passes and no submitter is supplied, the deposit
\* returns a descriptor with value 0, to the vault, from the depositor, and
\* gas = e + floor(e * 10 / 100) for the estimate e of this invocation.
C6_QuoteDescriptor ==
    \A p \in Procs :
        (ChecksPassed(p) /\ ~req[p].walletClient) =>
            /\ Done(p)
            /\ thrown[p] = "none"
            /\ DOMAIN returned[p] = {"to", "from", "data", "value", "gas"}
            /\ returned[p].value = 0
            /\ returned[p].to = req[p].vault
            /\ returned[p].from = req[p].wallet
            /\ IsTenPercentAbove(returned[p].gas, rd[p].gasEstimate)

\* C6 witness: a quote whose estimate has a fractional tenth (25 -> 27)
C6_Witness ==
    \E p \in Procs :
        /\ ChecksPassed(p) /\ ~req[p].walletClient /\ Done(p)
        /\ rd[p].gasEstimate = 25
        /\ returned[p].gas = 27
        /\ returned[p].to = VAULT /\ returned[p].from = WALLET

\* p returned {hash, receipt}
Executed(p) == Done(p) /\ DOMAIN returned[p] = {"hash", "receipt"}

\* C7 as stated: when every check passes and a submitter is supplied, the
\* result holds a hash and a receipt with status success, from the
\* depositor, to the vault.
C7_ReceiptAlwaysSuccess ==
    \A p \in Procs :
        (ChecksPassed(p) /\ req[p].walletClient /\ Done(p)
         /\ thrown[p] = "none") =>
            /\ Executed(p)
            /\ returned[p].receipt.status = "success"
            /\ returned[p].receipt.from = req[p].wallet
            /\ returned[p].receipt.to = req[p].vault

\* C7 amended: when every check passes and a submitter is supplied, the
\* result returned holds the hash of the transaction sent and its receipt,
\* from the depositor, to the vault; the status is success if nothing else
\* changed the ledger between the call and the mining of the transaction,
\* and success or reverted otherwise.
C7_ReceiptOfSentTransaction ==
    \A p \in Procs :
        (ChecksPassed(p) /\ req[p].walletClient /\ Done(p)
         /\ thrown[p] = "none") =>
            /\ Executed(p)
            /\ returned[p].hash = sent[p]
            /\ returned[p].hash \in 1 .. Len(txs)
            /\ returned[p].receipt.transactionHash = returned[p].hash
            /\ returned[p].receipt.from = req[p].wallet
            /\ returned[p].receipt.to = req[p].vault
            /\ returned[p].receipt.status \in {"success", "reverted"}
            /\ ~interfered[p] => returned[p].receipt.status = "success"

\* C7 witness: an undisturbed deposit returned a success receipt
C7_Witness ==
    \E p \in Procs :
        /\ ChecksPassed(p) /\ req[p].walletClient /\ Executed(p)
        /\ ~interfered[p]
        /\ returned[p].receipt.status = "success"
        /\ shares = req[p].amount

\* the deposits mined successfully since the last approve() are n deposits
\* of a each
SameDeposits(n, a) ==
    /\ Len(okSince) = n
    /\ \A i \in 1 .. n : okSince[i] = a

\* C8: against the 1:1 vault, N >= 2 successful deposits of A each by the
\* depositor lower its allowance to the vault by N*A in all and raise its
\* vault-share balance by exactly N*A.
C8_SequentialDepositsAdditive ==
    \A n \in 2 .. MaxCalls, a \in 1 .. MaxAmount :
        SameDeposits(n, a) =>
            /\ allowance = approved - n * a
            /\ shares = sharesThen + n * a

\* C8 witness: the second of two sequential deposits of 1 has returned
C8_Witness ==
    \E p \in Procs :
        /\ SameDeposits(2, 1)
        /\ ncalls = 2
        /\ Executed(p)
        /\ returned[p].hash = 2
        /\ returned[p].receipt.status = "success"
        /\ txs[1].status = "success"
        /\ approved = 2 /\ allowance = 0 /\ shares = 2

\* C9: an executed deposit of exactly the remaining allowance, balance and
\* capacity covering it, succeeds, and the allowance is zero afterwards.
C9_ExactAllowance ==
    \A p \in Procs :
        (/\ LocallyValid(p) /\ Undisturbed(p) /\ Answered(p)
         /\ req[p].walletClient
         /\ AllowanceAtCall(p) = req[p].amount
         /\ BalanceAtCall(p) >= req[p].amount
         /\ vaultMaxDeposit >= req[p].amount) =>
            /\ thrown[p] = "none"
            /\ Executed(p)
            /\ returned[p].receipt.status = "success"
            /\ allowance = 0

\* C9 witness: the allowance was 1 short of the balance and was used up
C9_Witness ==
    \E p \in Procs :
        /\ LocallyValid(p) /\ Undisturbed(p) /\ Executed(p)
        /\ rd[p].allowance = req[p].amount
        /\ rd[p].balance > req[p].amount
        /\ returned[p].receipt.status = "success"
        /\ allowance = 0

\* C10: a deposit of 1, the smallest unit, with balance, allowance and
\* maxDeposit at least 1, passes every validation and succeeds: a
\* descriptor without a submitter, a hash and a success receipt with one.
C10_MinimumAmount ==
    \A p \in Procs :
        (/\ LocallyValid(p) /\ Undisturbed(p) /\ Answered(p)
         /\ req[p].amount = 1
         /\ BalanceAtCall(p) >= 1
         /\ AllowanceAtCall(p) >= 1
         /\ vaultMaxDeposit >= 1) =>
            /\ thrown[p] = "none"
            /\ calls[p][Len(calls[p])] =
                 (IF req[p].walletClient THEN "waitForTransactionReceipt"
                  ELSE "estimateGas")
            /\ IF req[p].walletClient
                 THEN /\ Executed(p)
                      /\ returned[p].receipt.status = "success"
                 ELSE /\ DOMAIN returned[p] = {"to", "from", "data", "value", "gas"}
                      /\ returned[p].data.args[1] = 1

\* C10 witness: both modes of a deposit of 1 against balance 1, allowance 1
\* and maxDeposit 1
C10_Witness ==
    \E p \in Procs :
        /\ LocallyValid(p) /\ Undisturbed(p) /\ Executed(p)
        /\ req[p].amount = 1
        /\ rd[p].balance = 1 /\ rd[p].allowance = 1 /\ rd[p].maxDeposit = 1
        /\ returned[p].receipt.status = "success"
        /\ shares = 1

\* the same deposit of 1 without a submitter returned a descriptor
C10_WitnessQuote ==
    \E p \in Procs :
        /\ LocallyValid(p) /\ Undisturbed(p) /\ Done(p)
        /\ ~req[p].walletClient
        /\ req[p].amount = 1
        /\ thrown[p] = "none"
        /\ "gas" \in DOMAIN returned[p]
        /\ balance = 1 /\ allowance = 1 /\ vaultMaxDeposit = 1

\* C11: for a locally valid request whose depositor's balance is below the
\* amount, the error is NotEnoughBalanceError whatever the allowance and the
\* vault's maxDeposit are; and the allowance is read only after the balance
\* was read and found sufficient.
C11_BalanceCheckFirst ==
    \A p \in Procs :
        /\ (LocallyValid(p) /\ Undisturbed(p)
               /\ BalanceAtCall(p) < req[p].amount)
             => /\ Answered(p) => thrown[p] = "NotEnoughBalanceError"
                /\ ~Issued(p, "allowance")
                /\ ~Issued(p, "maxDeposit")
        /\ (Called(p) /\ Issued(p, "allowance"))
             => /\ "balance" \in DOMAIN rd[p]
                /\ rd[p].balance >= req[p].amount

\* C11 witness: the balance, the allowance and maxDeposit are all below the
\* amount, and the invocation ended with NotEnoughBalanceError
C11_Witness ==
    \E p \in Procs :
        /\ LocallyValid(p) /\ Undisturbed(p) /\ Done(p)
        /\ thrown[p] = "NotEnoughBalanceError"
        /\ balance < req[p].amount
        /\ allowance < req[p].amount
        /\ vaultMaxDeposit < req[p].amount
        /\ calls[p] = <<"asset", "balanceOf">>

\* the number of times the remote call c was issued by invocation p
TimesIssued(p, c) == Cardinality({i \in 1 .. Len(calls[p]) : calls[p][i] = c})

\* C12: within one invocation sendTransaction is issued at most once: no
\* invocation sends a second transaction, neither after a reverted receipt,
\* nor after a dropped transaction or a thrown error; so no more
\* transactions were ever sent than invocations were made.
C12_SendAtMostOnce ==
    /\ \A p \in Procs : TimesIssued(p, "sendTransaction") <= 1
    /\ \A p \in Procs : TimesIssued(p, "waitForTransactionReceipt") <= 1
    /\ Len(txs) <= ncalls
    /\ \A p \in Procs :
          (Done(p) /\ sent[p] # 0)
            => calls[p][Len(calls[p])] \in {"sendTransaction",
                                            "waitForTransactionReceipt"}

\* C12 witness: the transaction that was sent reverted and the invocation
\* ended with that one transaction sent
C12_Witness ==
    \E p \in Procs :
        /\ Done(p) /\ sent[p] # 0
        /\ txs[sent[p]].status = "reverted"
        /\ thrown[p] = "none"
        /\ TimesIssued(p, "sendTransaction") = 1
        /\ Len(txs) = 1

\* the wait for the receipt was rejected (transaction dropped) and the
\* invocation ended with the one transaction sent
C12_WitnessDropped ==
    \E p \in Procs :
        /\ Done(p) /\ sent[p] # 0
        /\ thrown[p] = "RemoteCallError"
        /\ calls[p][Len(calls[p])] = "waitForTransactionReceipt"
        /\ TimesIssued(p, "sendTransaction") = 1

\* a step of invocation p: its call or one of its continuations
StepOf(p) ==
    \/ \E wallet \in Wallets, vault \in Vaults, amount \in Amounts,
          walletClient \in BOOLEAN :
            Deposit(p, wallet, vault, amount, walletClient)
    \/ Step(p)

\* an invocation without a wallet client has issued neither sendTransaction
\* nor waitForTransactionReceipt, and what it returned is the descriptor
QuoteNeverSent ==
    \A p \in Procs :
        (Called(p) /\ ~req[p].walletClient)
          => /\ ~Issued(p, "sendTransaction")
             /\ ~Issued(p, "waitForTransactionReceipt")
             /\ sent[p] = 0
             /\ (Done(p) /\ thrown[p] = "none")
                  => returned[p] = DepositTx(req[p].wallet, req[p].vault,
                                             req[p].amount, rd[p].gasEstimate)

\* no step of an invocation without a wallet client changes the ledger or
\* the transactions sent to the network
QuoteStepKeepsLedger ==
    \A p \in Procs :
        \/ UNCHANGED <<ledger, txs>>
        \/ ~(StepOf(p) /\ ~req'[p].walletClient)

\* C13: when no wallet client is supplied, deposit issues neither
\* sendTransaction nor waitForTransactionReceipt on any path, on success it
\* returns the unsent descriptor, and none of its steps changes the ledger:
\* the ledger after the invocation is the ledger before it.
C13_QuoteModeIsReadOnly == []QuoteNeverSent /\ [][QuoteStepKeepsLedger]_vars

\* C13 witness: an invocation without a wallet client passed every check
\* and returned the descriptor; nothing was sent and the ledger holds what
\* it held at the call
C13_Witness ==
    \E p \in Procs :
        /\ LocallyValid(p) /\ Undisturbed(p) /\ Done(p)
        /\ ~req[p].walletClient
        /\ thrown[p] = "none"
        /\ calls[p] = <<"asset", "balanceOf", "allowance", "maxDeposit",
                        "estimateGas">>
        /\ returned[p].gas = GasWithBuffer(rd[p].gasEstimate)
        /\ txs = << >>
        /\ shares = 0
        /\ balance = rd[p].balance /\ allowance = rd[p].allowance

\* the fields of the two result shapes
ExecutionResultFields == {"hash", "receipt"}
TransactionDescriptorFields == {"to", "from", "data", "value", "gas"}

\* C14: a successful invocation returns a result of hash and receipt if and
\* only if a wallet client was supplied, and a descriptor of to, from, data,
\* value and gas (no hash, no receipt) if and only if none was supplied; a
\* failed invocation returns nothing.
C14_ResultShape ==
    \A p \in Procs :
        /\ (Done(p) /\ thrown[p] = "none")
             => /\ req[p].walletClient
                     <=> DOMAIN returned[p] = ExecutionResultFields
                /\ ~req[p].walletClient
                     <=> DOMAIN returned[p] = TransactionDescriptorFields
        /\ (Done(p) /\ thrown[p] # "none") => returned[p] = NoValue

\* C14 witness: with a wallet client, the result is the hash of the sent
\* transaction and its receipt
C14_Witness ==
    \E p \in Procs :
        /\ Done(p) /\ thrown[p] = "none"
        /\ req[p].walletClient
        /\ DOMAIN returned[p] = ExecutionResultFields
        /\ returned[p].hash = sent[p]
        /\ returned[p].receipt.transactionHash = sent[p]

\* without a wallet client, the result is the descriptor
C14_WitnessDescriptor ==
    \E p \in Procs :
        /\ Done(p) /\ thrown[p] = "none"
        /\ ~req[p].walletClient
        /\ DOMAIN returned[p] = TransactionDescriptorFields
        /\ returned[p].value = 0

\* the number of remote calls of invocation p that returned a value
Delivered(p) ==
    Cardinality(DOMAIN rd[p]) + (IF sent[p] # 0 THEN 1 ELSE 0)

\* C15: a rejected remote call ends the invocation with the rejection
\* itself: nothing is returned, the rejected call is the last one issued
\* (every call before it returned a value, no later step ran), and the
\* rejection is never one of the five errors of deposit, which are thrown
\* only when every issued call has returned and the value read fails its
\* check.
C15_RemoteFailurePropagates ==
    \A p \in Procs :
        Done(p) =>
          /\ thrown[p] = "RemoteCallError"
               => /\ returned[p] = NoValue
                  /\ Len(calls[p]) >= 1
                  /\ Delivered(p) = Len(calls[p]) - 1
          /\ thrown[p] # "RemoteCallError" => Delivered(p) = Len(calls[p])
          /\ thrown[p] \in {"InvalidAmountError", "InvalidReceiverError"}
               => calls[p] = << >>
          /\ thrown[p] = "NotEnoughBalanceError"
               => rd[p].balance < req[p].amount
          /\ thrown[p] = "MissingAllowanceError"
               => rd[p].allowance < req[p].amount
          /\ thrown[p] = "AmountExceedsMaxDepositError"
               => rd[p].maxDeposit < req[p].amount

\* C15 witness: the gas simulation was rejected after the four reads had
\* returned; the invocation ended there
C15_Witness ==
    \E p \in Procs :
        /\ Done(p)
        /\ thrown[p] = "RemoteCallError"
        /\ calls[p] = <<"asset", "balanceOf", "allowance", "maxDeposit",
                        "estimateGas">>
        /\ DOMAIN rd[p] = {"asset", "balance", "allowance", "maxDeposit"}
        /\ sent[p] = 0

\* balanceOf was rejected while the ledger's balance is below the amount:
\* the error is the rejection, not NotEnoughBalanceError
C15_WitnessBalance ==
    \E p \in Procs :
        /\ Done(p) /\ Undisturbed(p)
        /\ thrown[p] = "RemoteCallError"
        /\ calls[p] = <<"asset", "balanceOf">>
        /\ balance < req[p].amount

\* C16: with a wallet client, when the receipt delivered by
\* waitForTransactionReceipt reports a revert, deposit still returns the
\* hash of the sent transaction and that receipt as it was delivered, and
\* throws nothing.
C16_RevertedReceiptReturned ==
    \A p \in Procs :
        ("receipt" \in DOMAIN rd[p] /\ rd[p].receipt.status = "reverted")
          => /\ Done(p)
             /\ req[p].walletClient
             /\ thrown[p] = "none"
             /\ DOMAIN returned[p] = {"hash", "receipt"}
             /\ returned[p].hash = sent[p]
             /\ returned[p].receipt = rd[p].receipt
             /\ returned[p].receipt.transactionHash = sent[p]
             /\ txs[sent[p]].status = "reverted"

\* C16 witness: every check had passed, the transaction was sent and
\* reverted on the ledger, and the invocation returned its reverted receipt
C16_Witness ==
    \E p \in Procs :
        /\ Done(p) /\ ChecksPassed(p)
        /\ "receipt" \in DOMAIN rd[p]
        /\ rd[p].receipt.status = "reverted"
        /\ returned[p].receipt.status = "reverted"
        /\ returned[p].hash = sent[p]
        /\ shares = sharesThen

\* C18: a request whose amount is <= 0 and whose depositor or vault is the
\* zero address fails with InvalidAmountError, never InvalidReceiverError.
C18_AmountCheckedBeforeAddresses ==
    \A p \in Procs :
        (/\ Called(p)
         /\ req[p].amount <= 0
         /\ (req[p].wallet = ZERO_ADDRESS \/ req[p].vault = ZERO_ADDRESS))
          => /\ Done(p)
             /\ thrown[p] = "InvalidAmountError"

\* C18 witness: amount 0 with both addresses zero ended with
\* InvalidAmountError
C18_Witness ==
    \E p \in Procs :
        /\ Done(p)
        /\ req[p].amount = 0
        /\ req[p].wallet = ZERO_ADDRESS
        /\ req[p].vault = ZERO_ADDRESS
        /\ thrown[p] = "InvalidAmountError"

\* C19: when deposit fails with InvalidReceiverError, no remote call of any
\* kind has been issued: the call log is empty, nothing was read and nothing
\* was sent.
C19_InvalidReceiverBeforeAnyCall ==
    \A p \in Procs :
        (Done(p) /\ thrown[p] = "InvalidReceiverError")
          => /\ calls[p] = << >>
             /\ rd[p] = NoValue
             /\ sent[p] = 0
             /\ returned[p] = NoValue

\* C19 witness: a positive amount into the zero vault, with a wallet client,
\* ended with InvalidReceiverError and an empty call log
C19_Witness ==
    \E p \in Procs :
        /\ Done(p)
        /\ thrown[p] = "InvalidReceiverError"
        /\ req[p].amount > 0
        /\ req[p].wallet # ZERO_ADDRESS
        /\ req[p].vault = ZERO_ADDRESS
        /\ req[p].walletClient
        /\ calls[p] = << >>
        /\ txs = << >>

\* the first k remote calls of the pipeline
FirstCalls(k) == SubSeq(RemoteCalls, 1, k)

\* C20: the remote calls of an invocation are issued strictly in the order
\* asset, balanceOf, allowance, maxDeposit, estimateGas, sendTransaction,
\* waitForTransactionReceipt, each at most once, each only after the one
\* before it returned and its check passed; after one of the errors of
\* deposit at some step, no later remote call is issued.
C20_RemoteCallOrder ==
    \A p \in Procs :
        Called(p) =>
          /\ Len(calls[p]) <= Len(RemoteCalls)
          /\ calls[p] = FirstCalls(Len(calls[p]))
          /\ ~Done(p) => /\ pc[p] = calls[p][Len(calls[p])]
                         /\ Delivered(p) = Len(calls[p]) - 1
          /\ Issued(p, "asset") => LocallyValid(p)
          /\ Issued(p, "balanceOf") => "asset" \in DOMAIN rd[p]
          /\ Issued(p, "allowance")
               => ~NotEnoughBalance(rd[p].balance, req[p].amount)
          /\ Issued(p, "maxDeposit")
               => ~MissingAllowance(rd[p].allowance, req[p].amount)
          /\ Issued(p, "estimateGas")
               => ~AmountExceedsMaxDeposit(rd[p].maxDeposit, req[p].amount)
          /\ Issued(p, "sendTransaction")
               => "gasEstimate" \in DOMAIN rd[p] /\ req[p].walletClient
          /\ Issued(p, "waitForTransactionReceipt") => sent[p] # 0
          /\ thrown[p] \in {"InvalidAmountError", "InvalidReceiverError"}
               => calls[p] = FirstCalls(0)
          /\ thrown[p] = "NotEnoughBalanceError" => calls[p] = FirstCalls(2)
          /\ thrown[p] = "MissingAllowanceError" => calls[p] = FirstCalls(3)
          /\ thrown[p] = "AmountExceedsMaxDepositError"
               => calls[p] = FirstCalls(4)

\* C20 witness: all seven remote calls were issued, in order, and the
\* invocation returned
C20_Witness ==
    \E p \in Procs :
        /\ Done(p) /\ thrown[p] = "none"
        /\ calls[p] = RemoteCalls
        /\ Delivered(p) = 7

\* an invocation stopped by MissingAllowanceError issued nothing after
\* allowance
C20_WitnessStopped ==
    \E p \in Procs :
        /\ Done(p) /\ thrown[p] = "MissingAllowanceError"
        /\ calls[p] = <<"asset", "balanceOf", "allowance">>
        /\ vaultMaxDeposit >= req[p].amount

\* how invocation p ended: the error thrown, the status of the receipt
\* returned, or "descriptor"
Outcome(p) ==
    IF thrown[p] # "none" THEN thrown[p]
    ELSE IF "receipt" \in DOMAIN returned[p] THEN returned[p].receipt.status
    ELSE "descriptor"

\* how an invocation with request r ends when it runs alone, no remote call
\* being rejected, on a ledger holding balance bal, allowance allow and
\* maxDeposit cap
AloneOutcome(r, bal, allow, cap) ==
    IF r.amount <= 0 THEN "InvalidAmountError"
    ELSE IF r.wallet = ZERO_ADDRESS \/ r.vault = ZERO_ADDRESS
      THEN "InvalidReceiverError"
    ELSE IF bal < r.amount THEN "NotEnoughBalanceError"
    ELSE IF allow < r.amount THEN "MissingAllowanceError"
    ELSE IF cap < r.amount THEN "AmountExceedsMaxDepositError"
    ELSE IF r.walletClient THEN "success"
    ELSE "descriptor"

\* the ledger when the two invocations were called: deposits move the
\* balance into the vault's assets, and nothing but deposits changes the
\* allowance since the last approve()
BalanceAtStart == balance + totalAssets
AllowanceAtStart == approved

\* C17 as stated: of two invocations with different requests interleaved at
\* their awaits, each ends as it would have ended running alone from the
\* ledger state they started from.
C17_OutcomeAsIfAlone ==
    \A p \in Procs : \A q \in Procs \ {p} :
        (Called(q) /\ req[p] # req[q] /\ Answered(p))
          => Outcome(p) = AloneOutcome(req[p], BalanceAtStart,
                                       AllowanceAtStart, vaultMaxDeposit)

\* C17 amended: of two interleaved invocations, each one under which the
\* other's transaction did not change the ledger ends as it would have
\* ended running alone from the ledger state at its call; the invocations
\* share nothing but the ledger.
C17_OutcomeAsIfAloneUndisturbed ==
    \A p \in Procs : \A q \in Procs \ {p} :
        (Called(q) /\ Answered(p) /\ Undisturbed(p))
          => Outcome(p) = AloneOutcome(req[p], BalanceAtCall(p),
                                       AllowanceAtCall(p), vaultMaxDeposit)

\* C17 witness: two invocations with different requests ran interleaved,
\* one sent its transaction and saw it succeed, the other, without a wallet
\* client, read the ledger before that transaction was mined and returned a
\* descriptor
C17_Witness ==
    \E p \in Procs : \E q \in Procs \ {p} :
        /\ req[p] # req[q]
        /\ Answered(p) /\ Undisturbed(p) /\ Outcome(p) = "success"
        /\ Done(q) /\ Outcome(q) = "descriptor"
        /\ rd[q].balance = balance + req[p].amount
        /\ "maxDeposit" \in DOMAIN rd[q]

\* C21: for every base estimate e >= 0 the gas limit of the descriptor is
\* e + floor(e * 10 / 100) = e + floor(e / 10): never below e, equal to e
\* exactly when e < 10, never above e + e/10 (nothing is rounded up), the
\* buffer being the integer k with 10k <= e < 10k + 10.
C21_GasLimitArithmetic ==
    \A p \in Procs :
        (Done(p) /\ "gas" \in DOMAIN returned[p])
          => LET e == rd[p].gasEstimate
                 g == returned[p].gas
             IN  /\ e >= 0
                 /\ g >= e
                 /\ (g = e) <=> (e < 10)
                 /\ 10 * g <= 11 * e
                 /\ 10 * (g - e) <= e /\ e < 10 * (g - e) + 10
                 /\ g - e = e \div 10

\* C21 witness: an estimate just below a multiple of ten, where rounding to
\* the nearest or upwards would give one more: 119 gives 130
C21_Witness ==
    \E p \in Procs :
        /\ Done(p) /\ "gas" \in DOMAIN returned[p]
        /\ rd[p].gasEstimate = 119
        /\ returned[p].gas = 130

\* an estimate below ten gets no buffer at all
C21_WitnessSmall ==
    \E p \in Procs :
        /\ Done(p) /\ "gas" \in DOMAIN returned[p]
        /\ rd[p].gasEstimate = 9
        /\ returned[p].gas = 9

\* C22: with a wallet client, sendTransaction is issued only after the
\* three checks and the gas simulation succeeded;
\* waitForTransactionReceipt is issued only after sendTransaction returned
\* a hash, and for that hash; deposit returns only after a terminal receipt
\* (success or reverted) of that transaction was delivered, and the hash it
\* returns is the one sendTransaction returned.
C22_ExecuteModeOrder ==
    \A p \in Procs :
        Called(p) =>
          /\ Issued(p, "sendTransaction")
               => req[p].walletClient /\ ChecksPassed(p)
          /\ pc[p] = "sendTransaction" => sent[p] = 0
          /\ Issued(p, "waitForTransactionReceipt")
               => /\ sent[p] \in 1 .. Len(txs)
                  /\ txs[sent[p]].tx =
                       DepositTx(req[p].wallet, req[p].vault, req[p].amount,
                                 rd[p].gasEstimate)
          /\ (Done(p) /\ req[p].walletClient /\ thrown[p] = "none")
               => /\ calls[p] = RemoteCalls
                  /\ "receipt" \in DOMAIN rd[p]
                  /\ rd[p].receipt.transactionHash = sent[p]
                  /\ rd[p].receipt.status \in {"success", "reverted"}
                  /\ rd[p].receipt.status = txs[sent[p]].status
                  /\ returned[p].hash = sent[p]
                  /\ returned[p].receipt = rd[p].receipt

\* C22 witness: the second deposit of the caller returned hash 2 with the
\* terminal receipt of transaction 2
C22_Witness ==
    \E p \in Procs :
        /\ Done(p) /\ req[p].walletClient /\ thrown[p] = "none"
        /\ Len(txs) = 2
        /\ sent[p] = 2
        /\ returned[p].hash = 2
        /\ returned[p].receipt.transactionHash = 2
        /\ returned[p].receipt.status = "success"

\* C23: the transaction handed to walletClient.sendTransaction has to the
\* vault, from the depositor, the encoded deposit(amount, depositor), value
\* 0 and the inflated estimate as gas limit, and is sent on the depositor's
\* account; it is field for field the descriptor that an invocation without
\* a wallet client returns for the same wallet, vault and amount on the
\* same gas estimate.
C23_SentEqualsQuoted ==
    /\ \A q \in Procs :
          (Called(q) /\ sent[q] # 0)
            => LET t == txs[sent[q]]
                   e == rd[q].gasEstimate
               IN  /\ t.account = req[q].wallet
                   /\ t.tx.to = req[q].vault
                   /\ t.tx.from = req[q].wallet
                   /\ t.tx.data.functionName = "deposit"
                   /\ t.tx.data.args = <<req[q].amount, req[q].wallet>>
                   /\ t.tx.value = 0
                   /\ IsTenPercentAbove(t.tx.gas, e)
    /\ \A p \in Procs : \A q \in Procs \ {p} :
          (/\ Done(p) /\ thrown[p] = "none" /\ ~req[p].walletClient
           /\ Called(q) /\ sent[q] # 0
           /\ req[p].wallet = req[q].wallet
           /\ req[p].vault = req[q].vault
           /\ req[p].amount = req[q].amount
           /\ rd[p].gasEstimate = rd[q].gasEstimate)
            => returned[p] = txs[sent[q]].tx

\* C23 witness: a quote and an execution of the same request on the same
\* estimate: the descriptor returned and the transaction sent coincide
C23_Witness ==
    \E p \in Procs : \E q \in Procs \ {p} :
        /\ Done(p) /\ thrown[p] = "none" /\ ~req[p].walletClient
        /\ Called(q) /\ sent[q] # 0
        /\ req[p].amount = req[q].amount
        /\ rd[p].gasEstimate = 25 /\ rd[q].gasEstimate = 25
        /\ returned[p] = txs[sent[q]].tx
        /\ returned[p].gas = 27

\* the errors deposit throws itself
DomainErrors ==
    {"InvalidAmountError", "InvalidReceiverError", "NotEnoughBalanceError",
     "MissingAllowanceError", "AmountExceedsMaxDepositError"}

\* an invocation that ended in one of deposit's errors, or in a rejected
\* read or simulation, has sent nothing
FailedBeforeSendSentNothing ==
    \A p \in Procs :
        (/\ Done(p)
         /\ \/ thrown[p] \in DomainErrors
            \/ /\ thrown[p] = "RemoteCallError"
               /\ calls[p][Len(calls[p])] \in
                    {"asset", "balanceOf", "allowance", "maxDeposit",
                     "estimateGas"})
          => /\ sent[p] = 0
             /\ ~Issued(p, "sendTransaction")

\* no step of an invocation changes the ledger, and the one step that hands
\* a transaction to the network is the completion of sendTransaction, made
\* with a wallet client after every check and the simulation succeeded
OnlySendReachesLedger ==
    \/ UNCHANGED <<ledger, txs>>
    \/ \A p \in Procs :
          StepOf(p) => /\ UNCHANGED ledger
                       /\ pc[p] = "sendTransaction"
                       /\ req[p].walletClient
                       /\ ChecksPassed(p)
                       /\ Len(txs') = Len(txs) + 1

\* C24: an invocation that ends in one of deposit's errors or in a rejected
\* read or simulation leaves the ledger as it was: no step of deposit
\* changes the ledger, the only step that can lead to a change is
\* sendTransaction, and it is reached only with a wallet client after all
\* validations and the gas simulation succeeded.
C24_FailuresLeaveLedger ==
    []FailedBeforeSendSentNothing /\ [][OnlySendReachesLedger]_vars

\* C24 witness: with a wallet client, the simulation was rejected after the
\* ledger stopped permitting the deposit; nothing was sent and the ledger
\* holds no deposit
C24_Witness ==
    \E p \in Procs :
        /\ Done(p) /\ req[p].walletClient
        /\ thrown[p] = "RemoteCallError"
        /\ calls[p][Len(calls[p])] = "estimateGas"
        /\ sent[p] = 0
        /\ txs = << >>
        /\ totalAssets = 0 /\ shares = 0
        /\ allowance < req[p].amount

\* with a wallet client, MissingAllowanceError: nothing sent, ledger as at
\* the call
C24_WitnessDomainError ==
    \E p \in Procs :
        /\ Done(p) /\ Undisturbed(p) /\ req[p].walletClient
        /\ thrown[p] = "MissingAllowanceError"
        /\ txs = << >>
        /\ balance = rd[p].balance /\ allowance = rd[p].allowance
        /\ totalAssets = 0

\* C25: nothing of the vault is carried from one invocation to the next:
\* each invocation reads the balance, the allowance and maxDeposit the
\* ledger holds during that invocation and ends as those values decide, so
\* the repetition of a request ends as the ledger at the repetition
\* decides, whatever the first invocation read and however it ended.
C25_DecidedOnOwnReads ==
    \A p \in Procs :
        (LocallyValid(p) /\ Undisturbed(p))
          => /\ "balance" \in DOMAIN rd[p]
                  => rd[p].balance = BalanceAtCall(p)
             /\ "allowance" \in DOMAIN rd[p]
                  => rd[p].allowance = AllowanceAtCall(p)
             /\ "maxDeposit" \in DOMAIN rd[p]
                  => rd[p].maxDeposit = vaultMaxDeposit
             /\ Answered(p)
                  => Outcome(p) = AloneOutcome(req[p], BalanceAtCall(p),
                                               AllowanceAtCall(p),
                                               vaultMaxDeposit)

\* C25 witness: the request failed with MissingAllowanceError, approve()
\* raised the allowance, and the same request repeated went through
C25_Witness ==
    /\ Done(First) /\ thrown[First] = "MissingAllowanceError"
    /\ Done(Repeated) /\ Undisturbed(Repeated)
    /\ req[Repeated] = req[First]
    /\ thrown[Repeated] = "none"
    /\ rd[First].allowance < req[First].amount
    /\ rd[Repeated].allowance >= req[Repeated].amount

\* the request succeeded and consumed the allowance; the same request
\* repeated failed with MissingAllowanceError
C25_WitnessThenFails ==
    /\ Done(First) /\ Outcome(First) = "success"
    /\ Done(Repeated) /\ Undisturbed(Repeated)
    /\ req[Repeated] = req[First]
    /\ thrown[Repeated] = "MissingAllowanceError"
    /\ rd[First].allowance >= req[First].amount
    /\ rd[Repeated].allowance < req[Repeated].amount

\* C26: the three comparisons are strict: a request whose amount equals the
\* balance, the allowance and maxDeposit throws none of
\* NotEnoughBalanceError, MissingAllowanceError and
\* AmountExceedsMaxDepositError, and goes on to the gas estimation.
C26_EqualityPasses ==
    \A p \in Procs :
        (/\ LocallyValid(p) /\ Undisturbed(p)
         /\ BalanceAtCall(p) = req[p].amount
         /\ AllowanceAtCall(p) = req[p].amount
         /\ vaultMaxDeposit = req[p].amount)
          => /\ thrown[p] \notin {"NotEnoughBalanceError",
                                  "MissingAllowanceError",
                                  "AmountExceedsMaxDepositError"}
             /\ Answered(p) => /\ Issued(p, "estimateGas")
                               /\ thrown[p] = "none"

\* C26 witness: amount, balance, allowance and maxDeposit are all MaxAmount;
\* the three reads returned that value and estimateGas was issued
C26_Witness ==
    \E p \in Procs :
        /\ LocallyValid(p) /\ Undisturbed(p) /\ Done(p)
        /\ req[p].amount = MaxAmount
        /\ Issued(p, "estimateGas")
        /\ thrown[p] = "none"
        /\ rd[p].balance = MaxAmount
        /\ rd[p].allowance = MaxAmount
        /\ rd[p].maxDeposit = MaxAmount

\* the ways an invocation ends
EndedInDomainError(p) == thrown[p] \in DomainErrors /\ returned[p] = NoValue
EndedInRemoteFailure(p) ==
    thrown[p] = "RemoteCallError" /\ returned[p] = NoValue
EndedWithDescriptor(p) ==
    thrown[p] = "none" /\ DOMAIN returned[p] = TransactionDescriptorFields
EndedWithResult(p) ==
    thrown[p] = "none" /\ DOMAIN returned[p] = ExecutionResultFields

\* an ended invocation ended in exactly one of the four ways
EndedInOneWay ==
    \A p \in Procs :
        Done(p) =>
          Cardinality({k \in 1 .. 4 :
                         \/ k = 1 /\ EndedInDomainError(p)
                         \/ k = 2 /\ EndedInRemoteFailure(p)
                         \/ k = 3 /\ EndedWithDescriptor(p)
                         \/ k = 4 /\ EndedWithResult(p)}) = 1

\* an invocation in flight
Running(p) == pc[p] \notin {"idle", "done"}

\* C27: provided every remote call eventually returns or fails, every
\* invocation eventually ends, in exactly one of: an error of deposit, a
\* remote-call failure, a returned descriptor, a returned execution result.
C27_Terminates ==
    /\ []EndedInOneWay
    /\ \A p \in Procs : Running(p) ~> Done(p)

\* C27 witness: the caller's second invocation went through all seven
\* remote calls and ended with an execution result
C27_Witness ==
    \E p \in Procs :
        /\ ncalls = 2
        /\ Done(p) /\ EndedWithResult(p)
        /\ calls[p] = RemoteCalls
        /\ Len(txs) = 2

\* the call carried by what a successful invocation p produced: the
\* transaction it sent, or the descriptor it returned
ProducedCall(p) == IF sent[p] # 0 THEN txs[sent[p]].tx ELSE returned[p]

\* C28: the call simulated by estimateGas and the call of the descriptor
\* are the same call: the encoded deposit(amount, receiver) with the
\* depositor as receiver, from the depositor, to the vault; the receiver of
\* the shares is always the depositor.
C28_SimulatedIsDescribed ==
    \A p \in Procs :
        (Done(p) /\ thrown[p] = "none")
          => LET d == ProducedCall(p)
                 c == EstimateCall(req[p].wallet, req[p].vault, req[p].amount)
             IN  /\ c.data = d.data
                 /\ c.to = d.to
                 /\ c.account = d.from
                 /\ d.to = req[p].vault
                 /\ d.from = req[p].wallet
                 /\ d.data.functionName = "deposit"
                 /\ d.data.args[1] = req[p].amount
                 /\ d.data.args[2] = req[p].wallet
                 /\ c.data.args[2] = c.account

\* C28 witness: a deposit of MaxAmount was simulated, sent and mined; the
\* transaction names the depositor as receiver and the shares were minted
C28_Witness ==
    \E p \in Procs :
        /\ Done(p) /\ thrown[p] = "none" /\ sent[p] # 0
        /\ req[p].amount = MaxAmount
        /\ txs[sent[p]].tx.data.args = <<MaxAmount, WALLET>>
        /\ txs[sent[p]].tx.from = WALLET
        /\ txs[sent[p]].status = "success"
        /\ shares >= MaxAmount

\* the sum of the amounts of the first n sent transactions that were mined
\* with status success
RECURSIVE SuccessTotal(_)
SuccessTotal(n) ==
    IF n = 0 THEN 0
    ELSE SuccessTotal(n - 1)
           + (IF txs[n].status = "success" THEN txs[n].tx.data.args[1] ELSE 0)

\* the depositor's shares are the sum of the amounts of the deposits mined
\* with status success, and the vault holds as many assets
SharesAreSuccessfulDeposits ==
    /\ shares = SuccessTotal(Len(txs))
    /\ totalAssets = shares

\* every step keeps balance + totalAssets; a deposit turning to success
\* lowers the balance and raises the shares by exactly its amount, and no
\* other step moves them
DepositsMoveExactAmounts ==
    \/ UNCHANGED <<balance, totalAssets, shares, txs>>
    \/ /\ balance' + totalAssets' = balance + totalAssets
       /\ \A h \in 1 .. Len(txs) :
             (txs[h].status = "pending" /\ txs'[h].status = "success")
               => /\ balance' = balance - txs[h].tx.data.args[1]
                  /\ shares' = shares + txs[h].tx.data.args[1]
       /\ (\A h \in 1 .. Len(txs) : txs'[h].status = "success"
                                       => txs[h].status = "success")
            => /\ balance' = balance
               /\ shares' = shares

\* C29: against the 1:1 vault, after any sequence of invocations the
\* depositor's balance plus the vault's total assets keeps its initial
\* value, the depositor's shares equal the sum of the amounts of the
\* execute-mode deposits whose receipt status is success, and each such
\* deposit lowers the balance by exactly its amount.
C29_Conservation ==
    []SharesAreSuccessfulDeposits /\ [][DepositsMoveExactAmounts]_vars

\* C29 witness: two deposits were sent; one was mined with success, the
\* other reverted; the shares are the amount of the first alone
C29_Witness ==
    /\ Len(txs) = 2
    /\ \E h, k \in 1 .. 2 :
          /\ txs[h].status = "success"
          /\ txs[k].status = "reverted"
          /\ shares = txs[h].tx.data.args[1]
          /\ totalAssets = shares
          /\ shares > 0

\* the three checks of invocation p passed on the values it read
ThreeChecksPassed(p) ==
    /\ LocallyValid(p)
    /\ {"balance", "allowance", "maxDeposit"} \subseteq DOMAIN rd[p]
    /\ rd[p].balance >= req[p].amount
    /\ rd[p].allowance >= req[p].amount
    /\ rd[p].maxDeposit >= req[p].amount

\* the amount invocation p returned as deposited with status success
ConfirmedBy(p) ==
    IF Done(p) /\ Outcome(p) = "success" THEN req[p].amount ELSE 0

ConfirmedTotal == ConfirmedBy("p1") + ConfirmedBy("p2")

\* C30: under any interleaving of two invocations by the same depositor on
\* the same vault, the deposits confirmed with status success never add up
\* to more than the balance or the allowance they started from, the
\* balance and the allowance never go below zero, and an invocation with a
\* wallet client whose checks passed and whose deposit was not taken from
\* the ledger ended with a reverted receipt or a remote-call failure.
C30_NoOverSpend ==
    /\ balance >= 0
    /\ allowance >= 0
    /\ SuccessTotal(Len(txs)) <= BalanceAtStart
    /\ SuccessTotal(Len(txs)) <= AllowanceAtStart
    /\ ConfirmedTotal <= SuccessTotal(Len(txs))
    /\ ConfirmedTotal <= BalanceAtStart
    /\ ConfirmedTotal <= AllowanceAtStart
    /\ \A p \in Procs :
          (/\ Done(p) /\ req[p].walletClient /\ ThreeChecksPassed(p)
           /\ OwnSpent(p) = 0)
            => Outcome(p) \in {"reverted", "RemoteCallError"}

\* C30 witness: two deposits of MaxAmount by the same wallet both passed
\* their checks on a balance of MaxAmount; one was confirmed with success,
\* the other ended with a reverted receipt, and the balance is 0
C30_Witness ==
    \E p \in Procs : \E q \in Procs \ {p} :
        /\ Done(p) /\ Done(q)
        /\ req[p].walletClient /\ req[q].walletClient
        /\ req[p].amount = MaxAmount /\ req[q].amount = MaxAmount
        /\ ThreeChecksPassed(p) /\ ThreeChecksPassed(q)
        /\ rd[p].balance = MaxAmount /\ rd[q].balance = MaxAmount
        /\ Outcome(p) = "success"
        /\ Outcome(q) = "reverted"
        /\ balance = 0
        /\ ConfirmedTotal = MaxAmount

\* the later invocation had its simulation rejected instead
C30_WitnessSimulationRejected ==
    \E p \in Procs : \E q \in Procs \ {p} :
        /\ Done(p) /\ Done(q)
        /\ req[p].walletClient /\ req[q].walletClient
        /\ ThreeChecksPassed(p) /\ ThreeChecksPassed(q)
        /\ Outcome(p) = "success"
        /\ Outcome(q) = "RemoteCallError"
        /\ calls[q][Len(calls[q])] = "estimateGas"
        /\ balance < req[q].amount
====
